---- MODULE Spec2Model ----
(***************************************************************************)
(* Model of RedditAuth (src/src/modules/reddit_auth.py): credential        *)
(* resolution from the GUI form or the configuration file, the two-factor  *)
(* merge rule, session construction, verification and the error branches.  *)
(* A Python str is a sequence of one-character strings.                    *)
(***************************************************************************)
EXTENDS Integers, Sequences, FiniteSets, TLC

VARIABLES is_exe, client_id, client_secret, username, password,
          two_factor_code, pc, pw, reddit, exc, output, exit_code,
          consulted, entry_set, calls, first_passed, me_result, result,
          path_exists, code_absent

vars == <<is_exe, client_id, client_secret, username, password,
          two_factor_code, pc, pw, reddit, exc, output, exit_code,
          consulted, entry_set, calls, first_passed, me_result, result,
          path_exists, code_absent>>

fields == <<client_id, client_secret, username, password, two_factor_code>>

\* ---------------------------------------------------------------- bounds
MaxCodeLen == 2     \* longest free-form two-factor value
MaxPad     == 1     \* longest whitespace padding around a sentinel spelling
MaxCalls   == 2     \* calls of get_reddit_instance on one object

\* ------------------------------------------------------- Python values
PyNone    == <<"<None>">>       \* the None object (not a str)
Absent    == <<"<absent>">>     \* a key that the mapping does not hold
NoSession == [made |-> FALSE, client_id |-> PyNone, client_secret |-> PyNone,
              username |-> PyNone, password |-> PyNone]
NoCode    == 0 - 1              \* the process has not exited

Truthy(v) == v # PyNone /\ v # <<>>

AllSet(a, b, c, d) == Truthy(a) /\ Truthy(b) /\ Truthy(c) /\ Truthy(d)

NotSpace(c) == c # " "

RemoveSpaces(s) == SelectSeq(s, NotSpace)

LowerChar(c) ==
    CASE c = "N" -> "n"
      [] c = "O" -> "o"
      [] c = "E" -> "e"
      [] OTHER   -> c

\* the comparison made without .lower()
LowerMut(s) == s

Lower(s) == [i \in DOMAIN s |-> LowerChar(s[i])]

HasSecondFactor(code) == Truthy(code) /\ Lower(code) # <<"n", "o", "n", "e">>

CombinePassword(p, code) ==
    IF HasSecondFactor(code) THEN p \o <<":">> \o code ELSE p

DefaultTwoFactor == <<"N", "o", "n", "e">>

\* the branches of _read_credentials swapped
UsesGuiMut(exe) == ~exe

UsesGui(exe) == exe

\* what the verification call raises when the service rejects the login
AuthErrors == {"OAuthException", "ResponseException"}

\* an except clause that names only the OAuth error
CaughtAuthErrorsMut == {"OAuthException"}

CaughtAuthErrors == {"OAuthException", "ResponseException"}

ExitStatus == 1

\* ------------------------------------------------------------- messages
ProgressMsg    == <<"Retrieving Reddit Authentication instance...">>
SuccessMsg     == <<"Successfully authenticated.">>
RemediationMsg == <<"Please create a file named", "[reddit]", "client_id",
                    "client_secret", "username", "password",
                    "# Leave as None if you don't use two-factor authentication",
                    "two_factor_code">>
AuthFailedMsg  == <<"Failed to authenticate with Reddit. Please check your credentials.">>
ErrorDetailMsg == <<"Error details:">>

\* --------------------------------------------------------------- inputs
Whitespace == {" ", "\t", "\n"}

RECURSIVE SeqsUpTo(_, _)
SeqsUpTo(S, n) ==
    IF n = 0 THEN {<<>>}
    ELSE LET shorter == SeqsUpTo(S, n - 1)
         IN  shorter \cup {Append(s, c) : s \in shorter, c \in S}

NoneSpellings == {<<"n", "o", "n", "e">>, <<"N", "o", "n", "e">>,
                  <<"N", "O", "N", "E">>}

Pads == SeqsUpTo({" ", "\t"}, MaxPad)

TwoFactorInputs ==
    SeqsUpTo({" ", "\t", "1"}, MaxCodeLen)
      \cup {a \o s \o b : a \in Pads, s \in NoneSpellings, b \in Pads}
      \cup {<<"n", "o">> \o a \o <<"n", "e">> : a \in Pads}
      \cup {<<"1">> \o a \o <<"2">> : a \in Pads}

RequiredInputs == {<<>>, <<"x">>}
PasswordInputs == {<<>>, <<"p">>}

\* configparser strips leading and trailing whitespace from every value
Stripped(v) == v = <<>> \/ (v[1] \notin Whitespace /\ v[Len(v)] \notin Whitespace)

FileCodes == {v \in TwoFactorInputs : Stripped(v)}

MissingFile == [exists |-> FALSE, section |-> FALSE, client_id |-> Absent,
                client_secret |-> Absent, username |-> Absent,
                password |-> Absent, two_factor_code |-> Absent]

ConfigFiles ==
    {MissingFile, [MissingFile EXCEPT !.exists = TRUE]}
      \cup [exists : {TRUE}, section : {TRUE},
            client_id : RequiredInputs \cup {Absent},
            client_secret : RequiredInputs \cup {Absent},
            username : RequiredInputs \cup {Absent},
            password : PasswordInputs \cup {Absent},
            two_factor_code : FileCodes \cup {Absent}]

\* what CredentialsInputGUI.get_credentials() hands back
GuiCredentials ==
    [client_id : RequiredInputs, client_secret : RequiredInputs,
     username : RequiredInputs, password : PasswordInputs,
     two_factor_code : TwoFactorInputs \cup {Absent}]

\* the existence test dropped: config.read() skips a file it cannot open
FileMissingMut(config) == FALSE

\* os.path.exists(self.file_path) is false
FileMissing(config) == ~config.exists

\* dict.get(key, default) / SectionProxy.get(key, fallback)
GetOr(v, default) == IF v = Absent THEN default ELSE v

\* ----------------------------------------------------------------- Init
Init ==
    /\ is_exe \in BOOLEAN
    /\ client_id = PyNone
    /\ client_secret = PyNone
    /\ username = PyNone
    /\ password = PyNone
    /\ two_factor_code = PyNone
    /\ pc = "caller"
    /\ pw = PyNone
    /\ reddit = NoSession
    /\ exc = "none"
    /\ output = <<>>
    /\ exit_code = NoCode
    /\ consulted = {}
    /\ entry_set = FALSE
    /\ calls = 0
    /\ first_passed = PyNone
    /\ me_result = "pending"
    /\ result = NoSession
    /\ path_exists = "unchecked"
    /\ code_absent = FALSE

\* -------------------------------------------------------------- actions
\* the caller invokes get_reddit_instance; the try block tests the fields
Call ==
    /\ pc = "caller"
    /\ calls < MaxCalls
    /\ calls' = calls + 1
    /\ entry_set' = AllSet(client_id, client_secret, username, password)
    /\ pc' = IF AllSet(client_id, client_secret, username, password)
             THEN "progress" ELSE "read"
    /\ pw' = PyNone
    /\ reddit' = NoSession
    /\ exc' = "none"
    /\ output' = <<>>
    /\ consulted' = {}
    /\ me_result' = "pending"
    /\ result' = NoSession
    /\ path_exists' = "unchecked"
    /\ code_absent' = FALSE
    /\ UNCHANGED <<is_exe, fields, exit_code, first_passed>>

PromptCredentialsFromGui ==
    /\ pc = "read"
    /\ UsesGui(is_exe)
    /\ \E credentials \in GuiCredentials :
          /\ client_id' = credentials.client_id
          /\ client_secret' = credentials.client_secret
          /\ username' = credentials.username
          /\ password' = credentials.password
          /\ two_factor_code' = GetOr(credentials.two_factor_code, DefaultTwoFactor)
          /\ code_absent' = (credentials.two_factor_code = Absent)
    /\ consulted' = consulted \cup {"gui"}
    /\ pc' = "progress"
    /\ UNCHANGED <<is_exe, pw, reddit, exc, output, exit_code, entry_set,
                   calls, first_passed, me_result, result, path_exists>>

ReadCredentialsFromFile ==
    /\ pc = "read"
    /\ ~UsesGui(is_exe)
    /\ consulted' = consulted \cup {"file"}
    /\ \E config \in ConfigFiles :
          /\ path_exists' = IF config.exists THEN "yes" ELSE "no"
          /\ IF FileMissing(config)
             THEN
               /\ exc' = "FileNotFoundError"
               /\ pc' = "except"
               /\ UNCHANGED <<fields, code_absent>>
             ELSE
               LET ok1 == config.client_id # Absent
                   ok2 == ok1 /\ config.client_secret # Absent
                   ok3 == ok2 /\ config.username # Absent
                   ok4 == ok3 /\ config.password # Absent
               IN  /\ client_id' = IF ok1 THEN config.client_id ELSE client_id
                   /\ client_secret' = IF ok2 THEN config.client_secret
                                       ELSE client_secret
                   /\ username' = IF ok3 THEN config.username ELSE username
                   /\ password' = IF ok4 THEN config.password ELSE password
                   /\ two_factor_code' =
                         IF ok4 THEN GetOr(config.two_factor_code, DefaultTwoFactor)
                         ELSE two_factor_code
                   /\ code_absent' = (ok4 /\ config.two_factor_code = Absent)
                   /\ exc' = IF ok4 THEN "none" ELSE "KeyError"
                   /\ pc' = IF ok4 THEN "progress" ELSE "except"
    /\ UNCHANGED <<is_exe, pw, reddit, output, exit_code, entry_set, calls,
                   first_passed, me_result, result>>

PrintProgress ==
    /\ pc = "progress"
    /\ output' = Append(output, ProgressMsg)
    /\ pc' = "clean"
    /\ UNCHANGED <<is_exe, fields, pw, reddit, exc, exit_code, consulted,
                   entry_set, calls, first_passed, me_result, result,
                   path_exists, code_absent>>

CleanTwoFactor ==
    /\ pc = "clean"
    /\ two_factor_code' = IF Truthy(two_factor_code)
                          THEN RemoveSpaces(two_factor_code)
                          ELSE two_factor_code
    /\ pc' = "combine"
    /\ UNCHANGED <<is_exe, client_id, client_secret, username, password, pw,
                   reddit, exc, output, exit_code, consulted, entry_set, calls,
                   first_passed, me_result, result,
                   path_exists, code_absent>>

Combine ==
    /\ pc = "combine"
    /\ pw' = CombinePassword(password, two_factor_code)
    /\ pc' = "construct"
    /\ UNCHANGED <<is_exe, fields, reddit, exc, output, exit_code, consulted,
                   entry_set, calls, first_passed, me_result, result,
                   path_exists, code_absent>>

Construct ==
    /\ pc = "construct"
    /\ reddit' = [made |-> TRUE, client_id |-> client_id,
                  client_secret |-> client_secret, username |-> username,
                  password |-> pw]
    /\ first_passed' = IF calls = 1 THEN pw ELSE first_passed
    /\ pc' = "verify"
    /\ UNCHANGED <<is_exe, fields, pw, exc, output, exit_code, consulted,
                   entry_set, calls, me_result, result,
                   path_exists, code_absent>>

\* the verification error swallowed instead of raised
VerifyMut ==
    /\ pc = "verify"
    /\ \E r \in {"ok"} \cup AuthErrors :
          /\ me_result' = r
          /\ exc' = "none"
          /\ pc' = "success"
    /\ UNCHANGED <<is_exe, fields, pw, reddit, output, exit_code, consulted,
                   entry_set, calls, first_passed, result,
                   path_exists, code_absent>>

\* reddit.user.me(): the outcome is the library's and the service's; the code
\* does not tie it to the contents of the fields
Verify ==
    /\ pc = "verify"
    /\ \E r \in {"ok"} \cup AuthErrors :
          /\ me_result' = r
          /\ exc' = IF r = "ok" THEN "none" ELSE r
          /\ pc' = IF r = "ok" THEN "success" ELSE "except"
    /\ UNCHANGED <<is_exe, fields, pw, reddit, output, exit_code, consulted,
                   entry_set, calls, first_passed, result,
                   path_exists, code_absent>>

PrintSuccess ==
    /\ pc = "success"
    /\ output' = Append(output, SuccessMsg)
    /\ pc' = "return"
    /\ UNCHANGED <<is_exe, fields, pw, reddit, exc, exit_code, consulted,
                   entry_set, calls, first_passed, me_result, result,
                   path_exists, code_absent>>

Return ==
    /\ pc = "return"
    /\ result' = reddit
    /\ pc' = "caller"
    /\ UNCHANGED <<is_exe, fields, pw, reddit, exc, output, exit_code,
                   consulted, entry_set, calls, first_passed, me_result,
                   path_exists, code_absent>>

HandleFileNotFound ==
    /\ pc = "except"
    /\ exc = "FileNotFoundError"
    /\ output' = Append(output, RemediationMsg)
    /\ exit_code' = ExitStatus
    /\ pc' = "exited"
    /\ UNCHANGED <<is_exe, fields, pw, reddit, exc, consulted, entry_set,
                   calls, first_passed, me_result, result,
                   path_exists, code_absent>>

HandleAuthError ==
    /\ pc = "except"
    /\ exc \in CaughtAuthErrors
    /\ output' = output \o <<AuthFailedMsg, ErrorDetailMsg>>
    /\ exit_code' = ExitStatus
    /\ pc' = "exited"
    /\ UNCHANGED <<is_exe, fields, pw, reddit, exc, consulted, entry_set,
                   calls, first_passed, me_result, result,
                   path_exists, code_absent>>

\* no except clause matches: the exception leaves get_reddit_instance
Propagate ==
    /\ pc = "except"
    /\ exc # "FileNotFoundError"
    /\ exc \notin CaughtAuthErrors
    /\ pc' = "raised"
    /\ UNCHANGED <<is_exe, fields, pw, reddit, exc, output, exit_code,
                   consulted, entry_set, calls, first_passed, me_result, result,
                   path_exists, code_absent>>

Next ==
    \/ Call
    \/ PromptCredentialsFromGui
    \/ ReadCredentialsFromFile
    \/ PrintProgress
    \/ CleanTwoFactor
    \/ Combine
    \/ Construct
    \/ Verify
    \/ PrintSuccess
    \/ Return
    \/ HandleFileNotFound
    \/ HandleAuthError
    \/ Propagate

Spec == Init /\ [][Next]_vars

\* ------------------------------------------------------------ properties
NotWhitespace(c) == c \notin Whitespace

\* the normalisation the specification describes: every whitespace removed
StripWhitespace(s) == SelectSeq(s, NotWhitespace)

\* empty, whitespace-only, or "none" in any case once whitespace is removed
TrivialCode(v) ==
    \/ StripWhitespace(v) = <<>>
    \/ Len(StripWhitespace(v)) = 4
         /\ \A i \in 1..4 :
              LowerChar(StripWhitespace(v)[i]) = <<"n", "o", "n", "e">>[i]

Printed(msg) == \E i \in DOMAIN output : output[i] = msg

Count(msg) == Cardinality({i \in DOMAIN output : output[i] = msg})

Mentions(msg, key) == \E i \in DOMAIN msg : msg[i] = key

RemediationKeys == {"client_id", "client_secret", "username", "password",
                    "two_factor_code"}

SelectedSource == IF is_exe THEN "gui" ELSE "file"

\* the call has got past credential resolution (or the call is over)
Resolved == calls > 0 /\ pc # "read"

\* C1: a session built from a bundle whose two-factor value is empty,
\* whitespace-only or "none" (any case, whitespace removed) was given the
\* bundle's password unchanged.
C1_TrivialCodeKeepsPassword ==
    (reddit.made /\ TrivialCode(two_factor_code))
        => reddit.password = password

\* C2: a session built from a bundle with a non-trivial two-factor value was
\* given password, one colon, and the value with every whitespace removed.
C2_CodeAppendedWithoutWhitespace ==
    (reddit.made /\ ~TrivialCode(two_factor_code))
        => reddit.password =
             password \o <<":">> \o StripWhitespace(two_factor_code)

\* C3: with the file-backed source and a nonexistent file the call fails with
\* the missing-file error, prints the remediation text naming the five keys,
\* exits with code 1, and never constructs, verifies or returns a session.
C3_MissingFileExits ==
    /\ [](path_exists = "no" =>
            /\ ~is_exe /\ ~entry_set
            /\ exc = "FileNotFoundError"
            /\ pc \in {"except", "exited"}
            /\ ~reddit.made /\ me_result = "pending" /\ ~result.made
            /\ pc = "exited" =>
                 /\ exit_code = 1
                 /\ output = <<RemediationMsg>>
                 /\ \A k \in RemediationKeys : Mentions(output[1], k))
    /\ [][(path_exists = "no" /\ pc = "except") => pc' = "exited"]_vars

C3_Witness ==
    /\ path_exists = "no" /\ pc = "exited" /\ exit_code = 1
    /\ Printed(RemediationMsg)

\* C4: when the verification call raises an authentication error of either
\* kind, the generic message is printed, the process exits with code 1, no
\* success message is printed and no session reaches the caller.
C4_RejectedLoginExits ==
    /\ [](me_result \in AuthErrors =>
            /\ reddit.made
            /\ pc \in {"except", "exited"}
            /\ ~Printed(SuccessMsg) /\ ~result.made
            /\ pc = "exited" =>
                 /\ exit_code = 1
                 /\ output = <<ProgressMsg, AuthFailedMsg, ErrorDetailMsg>>)
    /\ [][(me_result \in AuthErrors /\ pc = "except") => pc' = "exited"]_vars

C4_Witness ==
    /\ me_result = "ResponseException" /\ pc = "exited" /\ exit_code = 1
    /\ Printed(AuthFailedMsg)

\* C5: whenever the session constructor has been invoked, the four required
\* fields are non-empty.
C5_RequiredFieldsSetAtConstruction ==
    reddit.made => AllSet(client_id, client_secret, username, password)

\* C6: a call that is over either returned a verified session built from a
\* complete bundle or ended the process with exit code 1.
C6_ReturnOrExitOnly ==
    (calls > 0 /\ pc \in {"caller", "exited", "raised"}) =>
        \/ /\ pc = "caller" /\ result.made /\ me_result = "ok"
           /\ AllSet(client_id, client_secret, username, password)
        \/ pc = "exited" /\ exit_code = 1

\* C7: a successful call prints the progress message, constructs the session,
\* verifies it, prints one success message and returns the constructed
\* session, in that order; nothing is returned before verification succeeded.
C7_VerifiedBeforeReturn ==
    /\ [](/\ reddit.made => (Len(output) >= 1 /\ output[1] = ProgressMsg)
          /\ me_result # "pending" => reddit.made
          /\ Printed(SuccessMsg) => me_result = "ok"
          /\ me_result = "ok" =>
               (pc \in {"success", "return", "caller"} /\ exit_code = NoCode)
          /\ pc = "return" => output = <<ProgressMsg, SuccessMsg>>
          /\ result.made =>
               /\ me_result = "ok" /\ result = reddit /\ pc = "caller"
               /\ output = <<ProgressMsg, SuccessMsg>>
               /\ Count(SuccessMsg) = 1)
    /\ [][/\ (me_result = "ok" /\ pc = "success") => pc' = "return"
          /\ pc = "return" => (pc' = "caller" /\ result' = reddit /\ result'.made)
         ]_vars

C7_Witness ==
    /\ result.made /\ me_result = "ok" /\ pc = "caller"
    /\ AllSet(client_id, client_secret, username, password)
    /\ output = <<ProgressMsg, SuccessMsg>>

\* C8: a config file with the four required keys and no two_factor_code key
\* leaves the two-factor field at the literal "None", and the password given
\* to the session constructor is the file's password unchanged.
C8_AbsentCodeDefaultsToNone ==
    (code_absent /\ "file" \in consulted) =>
        /\ two_factor_code = <<"N", "o", "n", "e">>
        /\ pw # PyNone => pw = password
        /\ reddit.made => reddit.password = password

C8_Witness ==
    /\ code_absent /\ "file" \in consulted /\ reddit.made
    /\ reddit.password = <<"p">>
    /\ two_factor_code = <<"N", "o", "n", "e">>

\* C9 as stated: every call that got past resolution consulted exactly one
\* source, the one the flag selects.
C9_ExactlyOneSource ==
    Resolved => consulted = {SelectedSource}

\* C9 amended: a call consults at most one source, the one the flag selects;
\* it consults that source exactly when a required field was unset on entry.
C9_AtMostSelectedSource ==
    /\ consulted \subseteq {SelectedSource}
    /\ Resolved => (IF entry_set THEN consulted = {}
                    ELSE consulted = {SelectedSource})

C9_Witness ==
    /\ calls = 2 /\ entry_set /\ consulted = {} /\ reddit.made

\* C10: over successive successful calls on one object the stored password
\* is never modified, every call hands the constructor the password string
\* the first call did, and the stored two-factor value stays normalised.
C10_SamePasswordEveryCall ==
    /\ [](reddit.made =>
            /\ reddit.password = first_passed
            /\ Truthy(two_factor_code) =>
                 RemoveSpaces(two_factor_code) = two_factor_code)
    /\ [][first_passed # PyNone => password' = password]_vars

====
